---- MODULE Spec2Model ----
(***************************************************************************)
(* A model of the SAM3 inference API (apps/api-inference): the three       *)
(* request handlers of routers/sam3.py, the orchestration methods of       *)
(* integrations/sam3/inference.py they call, the mask-to-polygon           *)
(* conversion of mask_utils.py and the compositor of visualizer.py.        *)
(*                                                                         *)
(* One request is followed from the router's entry to the HTTP status it   *)
(* ends with.  The external model adapter (processor + model +             *)
(* post-processing) is an environment step: it either raises or returns,   *)
(* per image, a sequence of detected objects.                              *)
(***************************************************************************)
EXTENDS Integers, Sequences, FiniteSets, TLC

VARIABLES
    req,              \* the request: kind, uploaded images, encoded form body, visualization flag
    pc,               \* position of the handler
    exc,              \* the exception in flight ("none" when there is none)
    status_code,      \* HTTP status of the response (0 while the handler runs)
    clock,            \* time.perf_counter(): one tick per step
    start_time,       \* start_time of the inference_* method (-1 before it is set)
    reads,            \* number of `await file.read()` completed
    size_checked,     \* indices of the images that passed the payload-size check
    dim_checked,      \* indices of the images that passed the pixel-dimension check
    images,           \* the `images` list: indices of the decoded images, in order
    adapter_calls,    \* invocations of the model adapter
    results,          \* the adapter's output: per image, a sequence of objects
    idx,              \* loop index of inference_batch's result loop (0-based)
    item,             \* the result (item) under construction
    batch_results,    \* inference_batch's batch_results list
    response,         \* the dict the inference_* method returned ("none" before)
    time_read_at,     \* clock value when the elapsed time was read (-1 before)
    viz_calls,        \* invocations of create_visualization: the image indices, in order
    viz_done_at,      \* clock value when the last create_visualization returned (-1 if none)
    fault,            \* the step that raised and the 0-based index of its image
    geom              \* a direct call of masks_to_polygon_data: arguments and result

vars == <<req, pc, exc, status_code, clock, start_time, reads, size_checked,
          dim_checked, images, adapter_calls, results, idx, item, batch_results,
          response, time_read_at, viz_calls, viz_done_at, fault, geom>>

----------------------------------------------------------------------------
(* Bounds of the model *)

\* largest batch that is followed through the whole pipeline
MaxImages == 2

\* most objects the adapter returns for one image
MaxObjects == 2

\* most masks in a direct call of masks_to_polygon_data
MaxMasks == 3

----------------------------------------------------------------------------
(* config.py: API limits and visualization settings *)

MAX_IMAGE_SIZE_MB == 10

MAX_BATCH_SIZE == 10

MAX_IMAGE_DIMENSION == 4096

VISUALIZATION_FORMAT == "PNG"

\* bytes in a megabyte, the divisor of `len(content) / (1024 * 1024)`
MiB == 1048576

----------------------------------------------------------------------------
(* Inputs *)

Min(a, b) == IF a <= b THEN a ELSE b

\* An uploaded file: length of its content in bytes, whether PIL can decode
\* it, and the pixel size of the decoded image.
GoodImage == [bytes |-> 4096, decodable |-> TRUE, width |-> 640, height |-> 480]

AtLimitImage ==
    [bytes |-> MAX_IMAGE_SIZE_MB * MiB, decodable |-> TRUE,
     width |-> MAX_IMAGE_DIMENSION, height |-> MAX_IMAGE_DIMENSION]

OversizeImage == [GoodImage EXCEPT !.bytes = MAX_IMAGE_SIZE_MB * MiB + 1]

MalformedImage == [GoodImage EXCEPT !.decodable = FALSE]

WideImage == [GoodImage EXCEPT !.width = MAX_IMAGE_DIMENSION + 1]

TallImage == [GoodImage EXCEPT !.height = MAX_IMAGE_DIMENSION + 1]

UploadFiles ==
    {GoodImage, AtLimitImage, OversizeImage, MalformedImage, WideImage, TallImage}

\* the files of a batch: every kind of fault, and the file that passes
BatchFiles == {GoodImage, OversizeImage, MalformedImage, WideImage, TallImage}

\* Batches of at most MaxImages files are drawn freely; the one longer batch,
\* of MAX_BATCH_SIZE + 1 files, holds at most one file that is not GoodImage.
ImageLists(n) ==
    IF n <= MaxImages
    THEN [1..n -> BatchFiles]
    ELSE {[i \in 1..n |-> GoodImage]} \cup
         {[i \in 1..n |-> IF i = k THEN f ELSE GoodImage] :
              k \in 1..n, f \in UploadFiles}

\* The form field a handler decodes with json.loads: text that is no JSON,
\* a JSON scalar (a number), or a JSON array.  For text_prompts the array is
\* given by its length; for bounding_boxes by whether every box has at least
\* the four coordinates.
PromptBodies(n) ==
    {[json |-> "invalid", len |-> 0], [json |-> "scalar", len |-> 0]} \cup
    {[json |-> "array", len |-> l] : l \in {n - 1, n, n + 1} \ {-1}}

BoxBodies ==
    {[json |-> "invalid", len |-> 0], [json |-> "scalar", len |-> 0],
     [json |-> "short_item", len |-> 1], [json |-> "array", len |-> 1]}

NoBody == [json |-> "none", len |-> 0]

Requests ==
    {[kind |-> "text", images |-> <<f>>, body |-> NoBody, viz |-> v] :
         f \in UploadFiles, v \in BOOLEAN} \cup
    {[kind |-> "bbox", images |-> <<f>>, body |-> b, viz |-> v] :
         f \in UploadFiles, b \in BoxBodies, v \in BOOLEAN} \cup
    UNION {{[kind |-> "batch", images |-> fs, body |-> b, viz |-> v] :
                fs \in ImageLists(n), b \in PromptBodies(n), v \in BOOLEAN} :
           n \in (1..MaxImages) \cup {MAX_BATCH_SIZE + 1}}

----------------------------------------------------------------------------
(* Values *)

\* Python's None, and a variable that holds nothing yet
None == [none |-> TRUE]

\* `except ValueError` catches ValueError and its subclasses
ValueErrorTypes == {"ValueError", "JSONDecodeError"}

\* what the processor or the model raises when the adapter fails: a
\* ValueError of the processor (inputs it rejects) or a RuntimeError of torch
AdapterErrors == {"ValueError", "RuntimeError"}

\* what PIL raises when compositing or encoding fails: ValueError (images do
\* not match) or OSError (encoder error)
CompositingErrors == {"ValueError", "OSError"}

----------------------------------------------------------------------------
(* mask_utils.py: cv2.findContours(mask, RETR_TREE, CHAIN_APPROX_SIMPLE) *)

\* A mask [H, W] is given by its width w, height h and set fg of foreground
\* pixels <<x, y>>, 0 <= x < w, 0 <= y < h.  A point is <<x, y>>.

\* The binary image the border following works on: 1 on the foreground, 0
\* elsewhere (and 0 outside of the image: OpenCV pads it with a zero frame).
binary_image(mask) ==
    [p \in (0..(mask.w - 1)) \X (0..(mask.h - 1)) |-> IF p \in mask.fg THEN 1 ELSE 0]

Pix(img, p) == IF p \in DOMAIN img THEN img[p] ELSE 0

\* The eight directions, counter-clockwise from east (y grows downwards)
DX == <<1, 1, 0, -1, -1, -1, 0, 1>>

DY == <<0, -1, -1, -1, 0, 1, 1, 1>>

Neighbour(p, s) == <<p[1] + DX[(s % 8) + 1], p[2] + DY[(s % 8) + 1]>>

\* do { s = (s - 1) & 7; i1 = i0 + deltas[s]; } while( *i1 == 0 && s != s_end )
RECURSIVE first_neighbour(_, _, _, _)
first_neighbour(img, i0, s, s_end) ==
    LET s1 == (s + 7) % 8
    IN  IF Pix(img, Neighbour(i0, s1)) = 0 /\ s1 # s_end
        THEN first_neighbour(img, i0, s1, s_end)
        ELSE s1

\* while( s < MAX_SIZE - 1 ) { i4 = i3 + deltas[++s]; if( *i4 != 0 ) break; }
RECURSIVE next_neighbour(_, _, _)
next_neighbour(img, i3, s) ==
    IF s >= 15
    THEN s
    ELSE IF Pix(img, Neighbour(i3, s + 1)) # 0
         THEN s + 1
         ELSE next_neighbour(img, i3, s + 1)

\* The border following loop.  A pixel whose east neighbour was examined and
\* found 0 is marked -nbd, another pixel still 1 is marked nbd; with
\* CHAIN_APPROX_SIMPLE a point is written where the direction changes.
RECURSIVE follow_border(_, _, _, _, _, _, _, _)
follow_border(img, i0, i1, i3, s_end, prev_s, nbd, pts) ==
    LET s    == next_neighbour(img, i3, s_end) % 8
        i4   == Neighbour(i3, s)
        img1 == IF s >= 1 /\ s - 1 < s_end
                THEN [img EXCEPT ![i3] = -nbd]
                ELSE IF img[i3] = 1 THEN [img EXCEPT ![i3] = nbd] ELSE img
        pts1 == IF s # prev_s THEN Append(pts, i3) ELSE pts
    IN  IF i4 = i0 /\ i3 = i1
        THEN [img |-> img1, points |-> pts1]
        ELSE follow_border(img1, i0, i1, i4, (s + 4) % 8, s, nbd, pts1)

\* icvFetchContourEx: the border that starts at pixel i0
fetch_contour(img, i0, is_hole, nbd) ==
    LET s_end == IF is_hole THEN 0 ELSE 4
        s     == first_neighbour(img, i0, s_end, s_end)
    IN  IF s = s_end
        THEN [img |-> [img EXCEPT ![i0] = -nbd], points |-> <<i0>>]
        ELSE follow_border(img, i0, Neighbour(i0, s), i0, s, (s + 4) % 8, nbd, <<>>)

NoPixel == <<-1, -1>>

\* The parent of a border that starts now: the frame (0) when no border was
\* met on this row; else by the last border met, lnbd.
contour_parent(st, lnbd, is_hole) ==
    IF lnbd = NoPixel
    THEN 0
    ELSE LET lval == IF st.img[lnbd] < 0 THEN -st.img[lnbd] ELSE st.img[lnbd]
             par  == lval - 1
         IN  IF st.contours[par].is_hole = is_hole
             THEN st.contours[par].parent
             ELSE par

\* The raster scan (cvFindNextContour).  An outer border starts where a 0
\* pixel is followed by a 1 pixel, a hole border where a pixel >= 1 is
\* followed by a 0 pixel.  The k-th border found is labelled nbd = k + 1.
RECURSIVE scan_image(_, _, _, _)
scan_image(mask, st, x, y) ==
    IF y >= mask.h
    THEN st.contours
    ELSE IF x >= mask.w
    THEN scan_image(mask, [st EXCEPT !.prev = 0, !.lnbd = NoPixel], 0, y + 1)
    ELSE LET p    == st.img[<<x, y>>]
             prev == st.prev
         IN  IF p = prev
             THEN scan_image(mask, st, x + 1, y)
             ELSE IF (prev = 0 /\ p = 1) \/ (p = 0 /\ prev >= 1)
             THEN LET is_hole == ~(prev = 0 /\ p = 1)
                      lnbd    == IF is_hole /\ prev >= 2 THEN <<x - 1, y>> ELSE st.lnbd
                      origin  == IF is_hole THEN <<x - 1, y>> ELSE <<x, y>>
                      f       == fetch_contour(st.img, origin, is_hole, st.nbd)
                      p1      == f.img[<<x, y>>]
                  IN  scan_image(mask,
                          [img |-> f.img,
                           prev |-> p1,
                           lnbd |-> IF p1 \notin {0, 1} THEN <<x, y>> ELSE origin,
                           nbd |-> st.nbd + 1,
                           contours |-> Append(st.contours,
                               [is_hole |-> is_hole,
                                parent |-> contour_parent(st, lnbd, is_hole),
                                points |-> f.points])],
                          x + 1, y)
             ELSE scan_image(mask,
                      [st EXCEPT !.prev = p,
                                 !.lnbd = IF p \notin {0, 1} THEN <<x, y>> ELSE @],
                      x + 1, y)

\* RETR_TREE: the borders in pre-order of the hierarchy; a border is linked
\* in front of its parent's children, so siblings come latest-found first.
RECURSIVE tree_order(_, _, _)
tree_order(cs, parent, k) ==
    IF k = 0
    THEN <<>>
    ELSE IF cs[k].parent = parent
         THEN <<k>> \o tree_order(cs, k, Len(cs)) \o tree_order(cs, parent, k - 1)
         ELSE tree_order(cs, parent, k - 1)

\* cv2.RETR_EXTERNAL in place of cv2.RETR_TREE: the outer borders of the
\* top level only
findContours_external(mask) ==
    LET cs == scan_image(mask,
                  [img |-> binary_image(mask), prev |-> 0, lnbd |-> NoPixel,
                   nbd |-> 2, contours |-> <<>>], 0, 0)
        order == tree_order(cs, 0, Len(cs))
        top == SelectSeq(order, LAMBDA k : ~cs[k].is_hole /\ cs[k].parent = 0)
    IN  [i \in 1..Len(top) |-> cs[top[i]].points]

findContours(mask) ==
    LET cs == scan_image(mask,
                  [img |-> binary_image(mask), prev |-> 0, lnbd |-> NoPixel,
                   nbd |-> 2, contours |-> <<>>], 0, 0)
        order == tree_order(cs, 0, Len(cs))
    IN  [i \in 1..Len(order) |-> cs[order[i]].points]

----------------------------------------------------------------------------
(* mask_utils.py: cv2.approxPolyDP(contour, epsilon, closed=True) *)

\* The tolerance is counted in half pixels (3 is the default, 1.5), so that
\* the comparisons of approxPolyDP are comparisons of integers:
\* epsilon * epsilon = tol2 * tol2 / 4.

\* element `pos` of a C array
At(seq, pos) == seq[pos + 1]

Abs(n) == IF n < 0 THEN -n ELSE n

\* for( j = 1; j < count; j++ ): the point farthest from start_pt = src[p0]
RECURSIVE farthest_from(_, _, _, _, _)
farthest_from(src, p0, j, max_dist, right_start) ==
    IF j >= Len(src)
    THEN [max_dist |-> max_dist, right_start |-> right_start]
    ELSE LET pt   == At(src, (p0 + j) % Len(src))
             dx   == pt[1] - At(src, p0)[1]
             dy   == pt[2] - At(src, p0)[2]
             dist == dx * dx + dy * dy
         IN  IF dist > max_dist
             THEN farthest_from(src, p0, j + 1, dist, j)
             ELSE farthest_from(src, p0, j + 1, max_dist, right_start)

\* 1. Find approximately two farthest points of the contour (init_iters = 3)
RECURSIVE farthest_points(_, _, _, _)
farthest_points(src, i, pos, right_start) ==
    LET p0 == (pos + right_start) % Len(src)
        r  == farthest_from(src, p0, 1, 0, right_start)
    IN  IF i >= 2
        THEN [pos |-> p0, right_start |-> r.right_start, max_dist |-> r.max_dist]
        ELSE farthest_points(src, i + 1, p0, r.right_start)

\* while( pos != slice.end ): the point of the slice farthest from the line
\* start_pt -> end_pt
RECURSIVE max_deviation(_, _, _, _, _, _, _, _)
max_deviation(src, pos, slice_end, start_pt, dx, dy, max_dist, right_start) ==
    IF pos = slice_end
    THEN [max_dist |-> max_dist, right_start |-> right_start]
    ELSE LET pt   == At(src, pos)
             dist == Abs((pt[2] - start_pt[2]) * dx - (pt[1] - start_pt[1]) * dy)
             next == (pos + 1) % Len(src)
         IN  IF dist > max_dist
             THEN max_deviation(src, next, slice_end, start_pt, dx, dy, dist, pos)
             ELSE max_deviation(src, next, slice_end, start_pt, dx, dy, max_dist, right_start)

\* 3. run recursive process: the stack of slices, its top last
RECURSIVE split_slices(_, _, _, _)
split_slices(src, tol2, stack, dst) ==
    IF stack = <<>>
    THEN dst
    ELSE LET slice    == stack[Len(stack)]
             rest     == SubSeq(stack, 1, Len(stack) - 1)
             start_pt == At(src, slice.start)
             end_pt   == At(src, slice.end)
             pos      == (slice.start + 1) % Len(src)
             dx       == end_pt[1] - start_pt[1]
             dy       == end_pt[2] - start_pt[2]
             m        == max_deviation(src, pos, slice.end, start_pt, dx, dy, 0, 0)
             le_eps   == \/ pos = slice.end
                         \/ 4 * m.max_dist * m.max_dist <= tol2 * tol2 * (dx * dx + dy * dy)
         IN  IF le_eps
             THEN split_slices(src, tol2, rest, Append(dst, start_pt))
             ELSE split_slices(src, tol2,
                      rest \o <<[start |-> m.right_start, end |-> slice.end],
                                [start |-> slice.start, end |-> m.right_start]>>,
                      dst)

\* last stage: remove extra points on the [almost] straight lines
RECURSIVE final_cleanup(_, _, _, _, _, _, _, _)
final_cleanup(dst, new_count, pos, wpos, start_pt, pt, i, tol2) ==
    LET count == Len(dst)
    IN  IF ~(i < count /\ new_count > 2)
        THEN SubSeq(dst, 1, new_count)
        ELSE LET end_pt == At(dst, pos)
                 pos1   == (pos + 1) % count
                 wpos1  == (wpos + 1) % count
                 dx     == end_pt[1] - start_pt[1]
                 dy     == end_pt[2] - start_pt[2]
                 dist   == Abs((pt[1] - start_pt[1]) * dy - (pt[2] - start_pt[2]) * dx)
                 successive_inner_product ==
                     (pt[1] - start_pt[1]) * (end_pt[1] - pt[1]) +
                     (pt[2] - start_pt[2]) * (end_pt[2] - pt[2])
             IN  IF /\ 8 * dist * dist <= tol2 * tol2 * (dx * dx + dy * dy)
                    /\ dx # 0
                    /\ dy # 0
                    /\ successive_inner_product >= 0
                 THEN LET dst1 == [dst EXCEPT ![wpos + 1] = end_pt]
                      IN  final_cleanup(dst1, new_count - 1, (pos1 + 1) % count, wpos1,
                                        end_pt, At(dst1, pos1), i + 2, tol2)
                 ELSE final_cleanup([dst EXCEPT ![wpos + 1] = pt], new_count, pos1,
                                    wpos1, pt, end_pt, i + 1, tol2)

approxPolyDP(src, tol2) ==
    IF Len(src) = 0
    THEN <<>>
    ELSE LET far == farthest_points(src, 0, 0, 0)
             p0  == far.pos
             p1  == (far.right_start + p0) % Len(src)
             dst == IF 4 * far.max_dist <= tol2 * tol2
                    THEN <<At(src, p0)>>
                    ELSE split_slices(src, tol2,
                             <<[start |-> p1, end |-> p0], [start |-> p0, end |-> p1]>>,
                             <<>>)
             count == Len(dst)
         IN  final_cleanup(dst, count, 1 % count, 0, At(dst, count - 1), At(dst, 0), 0, tol2)

----------------------------------------------------------------------------
(* mask_utils.py *)

\* simplify_tolerance: float = 1.5, in half pixels
DefaultTolerance == 3

\* the loop over the contours without its test `if len(polygon) >= 3`
RECURSIVE contours_to_polygons_unfiltered(_, _, _, _)
contours_to_polygons_unfiltered(contours, simplify_tolerance, k, polygons) ==
    IF k > Len(contours)
    THEN polygons
    ELSE IF Len(contours[k]) < 3
         THEN contours_to_polygons_unfiltered(contours, simplify_tolerance, k + 1, polygons)
         ELSE contours_to_polygons_unfiltered(contours, simplify_tolerance, k + 1,
                  Append(polygons, approxPolyDP(contours[k], simplify_tolerance)))

\* the loop over the contours of one mask
RECURSIVE contours_to_polygons(_, _, _, _)
contours_to_polygons(contours, simplify_tolerance, k, polygons) ==
    IF k > Len(contours)
    THEN polygons
    ELSE LET contour == contours[k]
             polygon == approxPolyDP(contour, simplify_tolerance)
         IN  IF Len(contour) < 3
             THEN contours_to_polygons(contours, simplify_tolerance, k + 1, polygons)
             ELSE IF Len(polygon) >= 3
             THEN contours_to_polygons(contours, simplify_tolerance, k + 1,
                                       Append(polygons, polygon))
             ELSE contours_to_polygons(contours, simplify_tolerance, k + 1, polygons)

mask_to_polygons(mask, simplify_tolerance) ==
    contours_to_polygons(findContours(mask), simplify_tolerance, 1, <<>>)

\* twice the signed area of a polygon (shoelace formula), from vertex i on
RECURSIVE shoelace(_, _)
shoelace(polygon, i) ==
    IF i > Len(polygon)
    THEN 0
    ELSE LET a == polygon[i]
             b == polygon[(i % Len(polygon)) + 1]
         IN  a[1] * b[2] - b[1] * a[2] + shoelace(polygon, i + 1)

RECURSIVE polygons_area(_, _)
polygons_area(polygons, k) ==
    IF k > Len(polygons)
    THEN 0
    ELSE Abs(shoelace(polygons[k], 1)) \div 2 + polygons_area(polygons, k + 1)

\* the area taken from the simplified polygons instead of the mask
polygon_approximated_area(mask) ==
    polygons_area(mask_to_polygons(mask, DefaultTolerance), 1)

calculate_mask_area(mask) == Cardinality(mask.fg)

\* masks_to_polygon_data with a mask that yields no polygon left out
RECURSIVE polygon_data_skipping_empty(_, _, _, _)
polygon_data_skipping_empty(masks, simplify_tolerance, i, polygon_data) ==
    IF i > Len(masks)
    THEN polygon_data
    ELSE polygon_data_skipping_empty(masks, simplify_tolerance, i + 1,
             IF mask_to_polygons(masks[i], simplify_tolerance) = <<>>
             THEN polygon_data
             ELSE Append(polygon_data,
                         [polygons |-> mask_to_polygons(masks[i], simplify_tolerance),
                          area |-> calculate_mask_area(masks[i])]))

\* for i in range(masks.shape[0]): ... polygon_data.append(...)
RECURSIVE polygon_data_loop(_, _, _, _)
polygon_data_loop(masks, simplify_tolerance, i, polygon_data) ==
    IF i > Len(masks)
    THEN polygon_data
    ELSE polygon_data_loop(masks, simplify_tolerance, i + 1,
             Append(polygon_data,
                    [polygons |-> mask_to_polygons(masks[i], simplify_tolerance),
                     area |-> calculate_mask_area(masks[i])]))

masks_to_polygon_data(masks, simplify_tolerance) ==
    polygon_data_loop(masks, simplify_tolerance, 1, <<>>)

----------------------------------------------------------------------------
(* visualizer.py *)

\* An image is the index of its upload and the sequence of what was drawn on
\* it.  The colour of object i of n is point i of the colormap resampled to n.
SourceImage(i) == [source |-> i, drawn |-> <<>>]

\* for idx, (mask, color) in enumerate(zip(masks, colors)): alpha_composite
RECURSIVE draw_mask_loop(_, _, _)
draw_mask_loop(image, objects, i) ==
    IF i > Len(objects)
    THEN image
    ELSE draw_mask_loop(
             [image EXCEPT !.drawn = Append(@,
                 [op |-> "mask", object |-> i - 1, color |-> <<i - 1, Len(objects)>>])],
             objects, i + 1)

\* for idx, (box, color) in enumerate(zip(boxes, colors)): rectangle, text
RECURSIVE draw_box_loop(_, _, _)
draw_box_loop(image, objects, i) ==
    IF i > Len(objects)
    THEN image
    ELSE draw_box_loop(
             [image EXCEPT !.drawn = @ \o
                 <<[op |-> "box", object |-> i - 1, color |-> <<i - 1, Len(objects)>>],
                   [op |-> "text", object |-> i - 1, color |-> <<i - 1, Len(objects)>>]>>],
             objects, i + 1)

\* the mask, the box and the score of an object drawn together, object by
\* object
RECURSIVE draw_object_loop(_, _, _)
draw_object_loop(image, objects, i) ==
    IF i > Len(objects)
    THEN image
    ELSE draw_object_loop(
             [image EXCEPT !.drawn = @ \o
                 <<[op |-> "mask", object |-> i - 1, color |-> <<i - 1, Len(objects)>>],
                   [op |-> "box", object |-> i - 1, color |-> <<i - 1, Len(objects)>>],
                   [op |-> "text", object |-> i - 1, color |-> <<i - 1, Len(objects)>>]>>],
             objects, i + 1)

draw_masks_and_boxes_per_object(image, objects) ==
    IF Len(objects) = 0
    THEN image
    ELSE draw_object_loop(image, objects, 1)

draw_masks_and_boxes(image, objects) ==
    IF Len(objects) = 0
    THEN image
    ELSE draw_box_loop(draw_mask_loop(image, objects, 1), objects, 1)

encode_image_to_bytes(image, format) ==
    [format |-> IF format = "JPEG" THEN "JPEG" ELSE "PNG", image |-> image]

\* create_visualization treating a call without objects as a failure
create_visualization_rejecting_empty(image, objects) ==
    IF Len(objects) = 0
    THEN None
    ELSE encode_image_to_bytes(draw_masks_and_boxes(image, objects), VISUALIZATION_FORMAT)

create_visualization(image, objects) ==
    encode_image_to_bytes(draw_masks_and_boxes(image, objects), VISUALIZATION_FORMAT)

b64encode(bytes) == [b64 |-> bytes]

----------------------------------------------------------------------------
(* The model adapter: processor, model, post_process_instance_segmentation *)

Rectangle(x1, y1, x2, y2) == (x1..x2) \X (y1..y2)

\* masks of the pipeline's objects, at a reduced resolution (4 x 3)
BlockMask == [w |-> 4, h |-> 3, fg |-> Rectangle(0, 0, 3, 2)]

DotMask == [w |-> 4, h |-> 3, fg |-> {<<1, 1>>}]

\* An accepted object: box (xyxy), score (in hundredths) and binary mask.
\* The adapter returns them in an order that is not the order of the scores.
AdapterObjects ==
    {[box |-> <<0, 0, 3, 2>>, score |-> 60, mask |-> BlockMask],
     [box |-> <<1, 1, 1, 1>>, score |-> 90, mask |-> DotMask]}

\* the results of one image: at most MaxObjects objects
ObjectLists == UNION {[1..n -> AdapterObjects] : n \in 0..MaxObjects}

\* post_process_instance_segmentation returns a list of results: one per
\* image, or (nothing in the callers checks its length) one fewer, or one
\* more.  The lists of the right length or shorter are drawn freely; a longer
\* list repeats one result.
AdapterResults(n) ==
    [1..n -> ObjectLists] \cup [1..(n - 1) -> ObjectLists] \cup
    {[i \in 1..(n + 1) |-> r] : r \in ObjectLists}

----------------------------------------------------------------------------
(* routers/sam3.py: decoding of the form fields *)

\* inference_bbox, lines 126-134: the exception the decoding of
\* bounding_boxes raises ("none" when it raises none)
parse_bounding_boxes(body) ==
    CASE body.json = "invalid"    -> "ValueError"
      [] body.json = "scalar"     -> "TypeError"
      [] body.json = "short_item" -> "IndexError"
      [] OTHER                    -> "none"

\* inference_batch, lines 208-216: the step of the decoding and validation of
\* text_prompts that raises, and its exception
parse_text_prompts(body, n_images) ==
    CASE body.json = "invalid"  -> [stage |-> "parse", exc |-> "ValueError"]
      [] body.json = "scalar"   -> [stage |-> "parse", exc |-> "TypeError"]
      [] body.len # n_images    -> [stage |-> "length", exc |-> "ValueError"]
      [] OTHER                  -> [stage |-> "none", exc |-> "none"]

----------------------------------------------------------------------------
(* integrations/sam3/inference.py *)

\* inference_batch without its batch size check
batch_size_unchecked(n_images) == FALSE

\* if len(image_files) > settings.MAX_BATCH_SIZE: raise ValueError
batch_size_exceeded(n_images) == n_images > MAX_BATCH_SIZE

\* _load_image_from_upload after `content = await file.read()`: which checks
\* the file passed, and the step that raised with its exception.
\* Image.open raises UnidentifiedImageError, an OSError, on bytes it cannot
\* decode.
load_image_from_upload(file) ==
    IF file.bytes > MAX_IMAGE_SIZE_MB * MiB
    THEN [size_ok |-> FALSE, dim_ok |-> FALSE, stage |-> "size", exc |-> "ValueError"]
    ELSE IF ~file.decodable
    THEN [size_ok |-> TRUE, dim_ok |-> FALSE, stage |-> "decode",
          exc |-> "UnidentifiedImageError"]
    ELSE IF file.width > MAX_IMAGE_DIMENSION \/ file.height > MAX_IMAGE_DIMENSION
    THEN [size_ok |-> TRUE, dim_ok |-> FALSE, stage |-> "dimension", exc |-> "ValueError"]
    ELSE [size_ok |-> TRUE, dim_ok |-> TRUE, stage |-> "none", exc |-> "none"]

\* the processor called from within the loading loop
after_load_call_adapter(loaded, n_images) == "adapter"

\* where the handler goes once image number `loaded` of n_images is appended:
\* inference_text and inference_bbox load one image, inference_batch loads
\* all of them before the processor is called
after_load(loaded, n_images) == IF loaded < n_images THEN "read" ELSE "adapter"

\* the visualization guard without its test of num_objects
should_visualize_when_requested(return_visualization, num_objects) ==
    return_visualization

\* if return_visualization and num_objects > 0
should_visualize(return_visualization, num_objects) ==
    return_visualization /\ num_objects > 0

\* the number of iterations of `for idx, (image, result) in
\* enumerate(zip(images, results))`
zip_length(imgs, res) == Min(Len(imgs), Len(res))

\* the processor and the model called for each image, from within the loop
\* over the results
after_item_call_adapter(processed, n_items) ==
    IF processed < n_items THEN "adapter" ELSE "total"

\* where inference_batch goes at the end of the body of its loop over
\* zip(images, results): to the next item, or past the loop
after_item(processed, n_items) ==
    IF processed < n_items THEN "convert" ELSE "total"

\* the fields of a result whose objects are put in order of decreasing score
result_fields_sorted_by_score(result) ==
    LET sorted == SortSeq(result, LAMBDA a, b : a.score > b.score)
    IN  [num_objects |-> Len(sorted),
         boxes |-> [i \in 1..Len(sorted) |-> sorted[i].box],
         scores |-> [i \in 1..Len(sorted) |-> sorted[i].score],
         masks |-> masks_to_polygon_data([i \in 1..Len(sorted) |-> sorted[i].mask],
                                         DefaultTolerance)]

\* num_objects, boxes_list, scores_list, masks_polygon of one result
result_fields(result) ==
    [num_objects |-> Len(result),
     boxes |-> [i \in 1..Len(result) |-> result[i].box],
     scores |-> [i \in 1..Len(result) |-> result[i].score],
     masks |-> masks_to_polygon_data([i \in 1..Len(result) |-> result[i].mask],
                                     DefaultTolerance)]

----------------------------------------------------------------------------
(* inference.py: inference_text and inference_bbox after the adapter *)

\* What inference_text and inference_bbox do once
\* post_process_instance_segmentation(...)[0] has returned `objects` for
\* `image`: the statements they execute, in order, and what leaves the method
\* (the response dict, or the exception of create_visualization).  `elapsed`
\* is the time the two perf_counter readings are apart, `compositing` what
\* create_visualization does when called ("none": it returns), and
\* `visualize` the value of the guard of the visualization.

\* the response dict, from the fields f of the result
response_dict(f, elapsed) ==
    [num_objects |-> f.num_objects, boxes |-> f.boxes, scores |-> f.scores,
     masks |-> f.masks, processing_time_ms |-> elapsed,
     visualization_base64 |-> None]

\* `if return_visualization and num_objects > 0:` and `return response`
visualize_and_return(dict, image, objects, visualize, compositing) ==
    LET prepared == <<"num_objects", "boxes_list", "scores_list",
                      "masks_to_polygon_data", "perf_counter", "response">>
    IN  IF ~visualize
        THEN [steps |-> prepared \o <<"return">>, response |-> dict, exc |-> "none"]
        ELSE IF compositing # "none"
        THEN [steps |-> prepared \o <<"create_visualization">>,
              response |-> None, exc |-> compositing]
        ELSE [steps |-> prepared \o <<"create_visualization", "b64encode", "return">>,
              response |-> [dict EXCEPT !.visualization_base64 =
                               b64encode(create_visualization(image, objects))],
              exc |-> "none"]

after_adapter(image, objects, visualize, elapsed, compositing) ==
    visualize_and_return(response_dict(result_fields(objects), elapsed),
                         image, objects, visualize, compositing)

\* inference_text after the adapter
inference_text_after_adapter(image, objects, return_visualization, elapsed, compositing) ==
    after_adapter(image, objects,
                  should_visualize(return_visualization, Len(objects)),
                  elapsed, compositing)

\* inference_bbox drawing a visualization whenever one is requested
inference_bbox_always_visualizing(image, objects, return_visualization, elapsed, compositing) ==
    after_adapter(image, objects, return_visualization, elapsed, compositing)

\* inference_bbox after the adapter
inference_bbox_after_adapter(image, objects, return_visualization, elapsed, compositing) ==
    after_adapter(image, objects,
                  should_visualize(return_visualization, Len(objects)),
                  elapsed, compositing)

-----------------------------------------------------------------------------

(* The state machine *)

NoFault == [stage |-> "none", index |-> -1]

IdleGeom == [pc |-> "idle"]

Init ==
    /\ req \in Requests
    /\ pc = "router"
    /\ exc = "none"
    /\ status_code = 0
    /\ clock = 0
    /\ start_time = -1
    /\ reads = 0
    /\ size_checked = {}
    /\ dim_checked = {}
    /\ images = <<>>
    /\ adapter_calls = 0
    /\ results = <<>>
    /\ idx = 0
    /\ item = None
    /\ batch_results = <<>>
    /\ response = None
    /\ time_read_at = -1
    /\ viz_calls = <<>>
    /\ viz_done_at = -1
    /\ fault = NoFault
    /\ geom = IdleGeom

\* an exception leaves the inference method and reaches the handler's
\* except clauses
Raise(e, stage, index) ==
    /\ exc' = e
    /\ fault' = [stage |-> stage, index |-> index]
    /\ pc' = "except"

Tick == clock' = clock + 1

\* routers/sam3.py inference_text: no field to decode
Router_inference_text ==
    /\ pc = "router"
    /\ req.kind = "text"
    /\ pc' = "start"
    /\ Tick
    /\ UNCHANGED <<req, exc, status_code, start_time, reads, size_checked, dim_checked,
                   images, adapter_calls, results, idx, item, batch_results, response,
                   time_read_at, viz_calls, viz_done_at, fault, geom>>

\* routers/sam3.py inference_bbox: json.loads(bounding_boxes), boxes, labels
Router_inference_bbox ==
    /\ pc = "router"
    /\ req.kind = "bbox"
    /\ LET e == parse_bounding_boxes(req.body)
       IN  IF e # "none"
           THEN Raise(e, "parse", -1)
           ELSE pc' = "start" /\ UNCHANGED <<exc, fault>>
    /\ Tick
    /\ UNCHANGED <<req, status_code, start_time, reads, size_checked, dim_checked,
                   images, adapter_calls, results, idx, item, batch_results, response,
                   time_read_at, viz_calls, viz_done_at, geom>>

\* routers/sam3.py inference_batch: json.loads(text_prompts), length match
Router_inference_batch ==
    /\ pc = "router"
    /\ req.kind = "batch"
    /\ LET r == parse_text_prompts(req.body, Len(req.images))
       IN  IF r.exc # "none"
           THEN Raise(r.exc, r.stage, -1)
           ELSE pc' = "start" /\ UNCHANGED <<exc, fault>>
    /\ Tick
    /\ UNCHANGED <<req, status_code, start_time, reads, size_checked, dim_checked,
                   images, adapter_calls, results, idx, item, batch_results, response,
                   time_read_at, viz_calls, viz_done_at, geom>>

\* start_time = time.perf_counter()
StartTimer ==
    /\ pc = "start"
    /\ start_time' = clock
    /\ pc' = IF req.kind = "batch" THEN "batch_size" ELSE "read"
    /\ Tick
    /\ UNCHANGED <<req, exc, status_code, reads, size_checked, dim_checked, images,
                   adapter_calls, results, idx, item, batch_results, response,
                   time_read_at, viz_calls, viz_done_at, fault, geom>>

\* inference_batch: the batch size check
CheckBatchSize ==
    /\ pc = "batch_size"
    /\ IF batch_size_exceeded(Len(req.images))
       THEN Raise("ValueError", "batch_size", -1)
       ELSE pc' = "read" /\ UNCHANGED <<exc, fault>>
    /\ Tick
    /\ UNCHANGED <<req, status_code, start_time, reads, size_checked, dim_checked,
                   images, adapter_calls, results, idx, item, batch_results, response,
                   time_read_at, viz_calls, viz_done_at, geom>>

\* content = await file.read(), of the next file
ReadFile ==
    /\ pc = "read"
    /\ reads' = reads + 1
    /\ pc' = "decode"
    /\ Tick
    /\ UNCHANGED <<req, exc, status_code, start_time, size_checked, dim_checked, images,
                   adapter_calls, results, idx, item, batch_results, response,
                   time_read_at, viz_calls, viz_done_at, fault, geom>>

\* the rest of _load_image_from_upload, and images.append(image)
LoadImage ==
    /\ pc = "decode"
    /\ LET r == load_image_from_upload(req.images[reads])
       IN  /\ size_checked' = IF r.size_ok THEN size_checked \cup {reads} ELSE size_checked
           /\ dim_checked' = IF r.dim_ok THEN dim_checked \cup {reads} ELSE dim_checked
           /\ IF r.exc # "none"
              THEN Raise(r.exc, r.stage, reads - 1) /\ UNCHANGED images
              ELSE /\ images' = Append(images, reads)
                   /\ pc' = after_load(reads, Len(req.images))
                   /\ UNCHANGED <<exc, fault>>
    /\ Tick
    /\ UNCHANGED <<req, status_code, start_time, reads, adapter_calls, results, idx,
                   item, batch_results, response, time_read_at, viz_calls, viz_done_at,
                   geom>>

\* processor(...), model(**inputs), post_process_instance_segmentation(...)
\* return the results of the loaded images
AdapterReturns ==
    /\ pc = "adapter"
    /\ adapter_calls' = adapter_calls + 1
    /\ results' \in AdapterResults(Len(images))
    /\ req.kind = "batch" \/ Len(results') > 0
    /\ idx' = 0
    /\ pc' = IF zip_length(images, results') > 0 THEN "convert" ELSE "total"
    /\ Tick
    /\ UNCHANGED <<req, exc, status_code, start_time, reads, size_checked, dim_checked,
                   images, item, batch_results, response, time_read_at, viz_calls,
                   viz_done_at, fault, geom>>

\* inference_text, inference_bbox: post_process_instance_segmentation(...)[0]
\* on an empty list
AdapterReturnsNothing ==
    /\ pc = "adapter"
    /\ req.kind # "batch"
    /\ <<>> \in AdapterResults(Len(images))
    /\ adapter_calls' = adapter_calls + 1
    /\ Raise("IndexError", "adapter", -1)
    /\ Tick
    /\ UNCHANGED <<req, status_code, start_time, reads, size_checked, dim_checked,
                   images, results, idx, item, batch_results, response, time_read_at,
                   viz_calls, viz_done_at, geom>>

\* ... or one of them raises
AdapterRaises ==
    /\ pc = "adapter"
    /\ adapter_calls' = adapter_calls + 1
    /\ \E e \in AdapterErrors : Raise(e, "adapter", -1)
    /\ Tick
    /\ UNCHANGED <<req, status_code, start_time, reads, size_checked, dim_checked,
                   images, results, idx, item, batch_results, response, time_read_at,
                   viz_calls, viz_done_at, geom>>

\* num_objects, boxes_list, scores_list, masks_polygon of the result at idx
\* (of results[0] in inference_text and inference_bbox); in inference_batch
\* also the result_item dict
ConvertMasks ==
    /\ pc = "convert"
    /\ LET f == result_fields(results[idx + 1])
       IN  IF req.kind = "batch"
           THEN /\ item' = [image_index |-> idx, num_objects |-> f.num_objects,
                            boxes |-> f.boxes, scores |-> f.scores, masks |-> f.masks,
                            visualization_base64 |-> None]
                /\ pc' = "visualize"
           ELSE /\ item' = f
                /\ pc' = "time"
    /\ Tick
    /\ UNCHANGED <<req, exc, status_code, start_time, reads, size_checked, dim_checked,
                   images, adapter_calls, results, idx, batch_results, response,
                   time_read_at, viz_calls, viz_done_at, fault, geom>>

\* inference_text, inference_bbox: processing_time_ms and the response dict
ReadTime ==
    /\ pc = "time"
    /\ time_read_at' = clock
    /\ item' = [num_objects |-> item.num_objects, boxes |-> item.boxes,
                scores |-> item.scores, masks |-> item.masks,
                processing_time_ms |-> clock - start_time,
                visualization_base64 |-> None]
    /\ pc' = "visualize"
    /\ Tick
    /\ UNCHANGED <<req, exc, status_code, start_time, reads, size_checked, dim_checked,
                   images, adapter_calls, results, idx, batch_results, response,
                   viz_calls, viz_done_at, fault, geom>>

\* The end of one result: inference_text and inference_bbox go on to return
\* the response; inference_batch appends the item and takes the next result.
EndOfResult(new_item) ==
    IF req.kind = "batch"
    THEN /\ batch_results' = Append(batch_results, new_item)
         /\ idx' = idx + 1
         /\ item' = None
         /\ pc' = after_item(idx + 1, zip_length(images, results))
    ELSE /\ item' = new_item
         /\ pc' = "return"
         /\ UNCHANGED <<batch_results, idx>>

\* create_visualization returns and its bytes are attached
Visualize ==
    /\ pc = "visualize"
    /\ should_visualize(req.viz, item.num_objects)
    /\ viz_calls' = Append(viz_calls, idx)
    /\ viz_done_at' = clock
    /\ EndOfResult([item EXCEPT !.visualization_base64 =
           b64encode(create_visualization(SourceImage(images[idx + 1]), results[idx + 1]))])
    /\ Tick
    /\ UNCHANGED <<req, exc, status_code, start_time, reads, size_checked, dim_checked,
                   images, adapter_calls, results, response, time_read_at, fault, geom>>

\* create_visualization raises
VisualizeRaises ==
    /\ pc = "visualize"
    /\ should_visualize(req.viz, item.num_objects)
    /\ viz_calls' = Append(viz_calls, idx)
    /\ \E e \in CompositingErrors : Raise(e, "visualize", idx)
    /\ Tick
    /\ UNCHANGED <<req, status_code, start_time, reads, size_checked, dim_checked,
                   images, adapter_calls, results, idx, item, batch_results, response,
                   time_read_at, viz_done_at, geom>>

\* no visualization for this result
SkipVisualize ==
    /\ pc = "visualize"
    /\ ~should_visualize(req.viz, item.num_objects)
    /\ EndOfResult(item)
    /\ Tick
    /\ UNCHANGED <<req, exc, status_code, start_time, reads, size_checked, dim_checked,
                   images, adapter_calls, results, response, time_read_at, viz_calls,
                   viz_done_at, fault, geom>>

\* inference_batch: total_time_ms and the response dict
BatchTotal ==
    /\ pc = "total"
    /\ time_read_at' = clock
    /\ item' = [total_images |-> Len(req.images),
                results |-> batch_results,
                total_processing_time_ms |-> clock - start_time,
                average_time_per_image_ms |-> <<clock - start_time, Len(req.images)>>]
    /\ pc' = "return"
    /\ Tick
    /\ UNCHANGED <<req, exc, status_code, start_time, reads, size_checked, dim_checked,
                   images, adapter_calls, results, idx, batch_results, response,
                   viz_calls, viz_done_at, fault, geom>>

\* return response; the handler answers 200 with it
ReturnResponse ==
    /\ pc = "return"
    /\ response' = item
    /\ status_code' = 200
    /\ pc' = "done"
    /\ Tick
    /\ UNCHANGED <<req, exc, start_time, reads, size_checked, dim_checked, images,
                   adapter_calls, results, idx, item, batch_results, time_read_at,
                   viz_calls, viz_done_at, fault, geom>>

\* except ValueError: 400; except Exception: 500
http_status(e) == IF e \in ValueErrorTypes THEN 400 ELSE 500

HandleException ==
    /\ pc = "except"
    /\ status_code' = http_status(exc)
    /\ pc' = "done"
    /\ Tick
    /\ UNCHANGED <<req, exc, start_time, reads, size_checked, dim_checked, images,
                   adapter_calls, results, idx, item, batch_results, response,
                   time_read_at, viz_calls, viz_done_at, fault, geom>>

Next ==
    \/ Router_inference_text
    \/ Router_inference_bbox
    \/ Router_inference_batch
    \/ StartTimer
    \/ CheckBatchSize
    \/ ReadFile
    \/ LoadImage
    \/ AdapterReturns
    \/ AdapterReturnsNothing
    \/ AdapterRaises
    \/ ConvertMasks
    \/ ReadTime
    \/ Visualize
    \/ VisualizeRaises
    \/ SkipVisualize
    \/ BatchTotal
    \/ ReturnResponse
    \/ HandleException

Spec == Init /\ [][Next]_vars

----------------------------------------------------------------------------
(* masks_to_polygon_data called directly, on masks [N, 5, 5] *)

EmptyMask == [w |-> 5, h |-> 5, fg |-> {}]

PixelMask == [w |-> 5, h |-> 5, fg |-> {<<2, 2>>}]

SmallMask == [w |-> 5, h |-> 5, fg |-> Rectangle(1, 1, 3, 3)]

WideMask == [w |-> 5, h |-> 5, fg |-> Rectangle(0, 0, 3, 2)]

RingMask == [w |-> 5, h |-> 5, fg |-> Rectangle(0, 0, 4, 4) \ Rectangle(1, 1, 3, 3)]

TwoBlobMask == [w |-> 5, h |-> 5, fg |-> Rectangle(0, 0, 4, 1) \cup Rectangle(0, 3, 2, 4)]

MaskPool == {EmptyMask, PixelMask, SmallMask, WideMask, RingMask, TwoBlobMask}

MaskLists == UNION {[1..n -> MaskPool] : n \in 0..MaxMasks}

\* simplify_tolerance, in half pixels: 0, 1, 1.5 (the default), 2
Tolerances == {0, 2, DefaultTolerance, 4}

NoRequest == [kind |-> "none", images |-> <<>>, body |-> NoBody, viz |-> FALSE]

InitMask ==
    /\ req = NoRequest
    /\ pc = "idle"
    /\ exc = "none"
    /\ status_code = 0
    /\ clock = 0
    /\ start_time = -1
    /\ reads = 0
    /\ size_checked = {}
    /\ dim_checked = {}
    /\ images = <<>>
    /\ adapter_calls = 0
    /\ results = <<>>
    /\ idx = 0
    /\ item = None
    /\ batch_results = <<>>
    /\ response = None
    /\ time_read_at = -1
    /\ viz_calls = <<>>
    /\ viz_done_at = -1
    /\ fault = NoFault
    /\ \E ms \in MaskLists, t \in Tolerances :
           geom = [pc |-> "call", masks |-> ms, simplify_tolerance |-> t,
                   polygon_data |-> <<>>]

Call_masks_to_polygon_data ==
    /\ geom.pc = "call"
    /\ geom' = [geom EXCEPT !.pc = "done",
                            !.polygon_data =
                                masks_to_polygon_data(geom.masks, geom.simplify_tolerance)]
    /\ UNCHANGED <<req, pc, exc, status_code, clock, start_time, reads, size_checked,
                   dim_checked, images, adapter_calls, results, idx, item,
                   batch_results, response, time_read_at, viz_calls, viz_done_at, fault>>

NextMask == Call_masks_to_polygon_data

MaskSpec == InitMask /\ [][NextMask]_vars

----------------------------------------------------------------------------
(* mask_to_polygons called directly on one mask [H, W]: every mask of a
   4 x 3 grid, every fully foreground mask up to MaxSide x MaxSide, and the
   5 x 5 masks above *)

\* largest side of a fully foreground mask
MaxSide == 6

Grid == [w |-> 4, h |-> 3]

GridMasks ==
    {[w |-> Grid.w, h |-> Grid.h, fg |-> s] :
        s \in SUBSET ((0..(Grid.w - 1)) \X (0..(Grid.h - 1)))}

FullMask(w, h) == [w |-> w, h |-> h, fg |-> Rectangle(0, 0, w - 1, h - 1)]

FullMasks == {FullMask(w, h) : w \in 1..MaxSide, h \in 1..MaxSide}

\* an 8 x 5 blob with a jagged border:
\*     . # . # # . . .
\*     . # # # . # # #
\*     # # # . . . # .
\*     # # # # # # . .
\*     # # . # # # # #
JaggedMask ==
    [w |-> 8, h |-> 5,
     fg |-> {<<1, 0>>, <<3, 0>>, <<4, 0>>,
             <<1, 1>>, <<2, 1>>, <<3, 1>>, <<5, 1>>, <<6, 1>>, <<7, 1>>,
             <<0, 2>>, <<1, 2>>, <<2, 2>>, <<6, 2>>,
             <<0, 3>>, <<1, 3>>, <<2, 3>>, <<3, 3>>, <<4, 3>>, <<5, 3>>,
             <<0, 4>>, <<1, 4>>, <<3, 4>>, <<4, 4>>, <<5, 4>>, <<6, 4>>, <<7, 4>>}]

ShapeMasks == GridMasks \cup FullMasks \cup MaskPool \cup {JaggedMask}

InitContour ==
    /\ req = NoRequest
    /\ pc = "idle"
    /\ exc = "none"
    /\ status_code = 0
    /\ clock = 0
    /\ start_time = -1
    /\ reads = 0
    /\ size_checked = {}
    /\ dim_checked = {}
    /\ images = <<>>
    /\ adapter_calls = 0
    /\ results = <<>>
    /\ idx = 0
    /\ item = None
    /\ batch_results = <<>>
    /\ response = None
    /\ time_read_at = -1
    /\ viz_calls = <<>>
    /\ viz_done_at = -1
    /\ fault = NoFault
    /\ \E m \in ShapeMasks : geom = [pc |-> "call", mask |-> m]

\* polygons = mask_to_polygons(mask, simplify_tolerance) and
\* area = calculate_mask_area(mask), as masks_to_polygon_data calls them on a
\* mask; the contours that cv2.findContours returned are kept beside them
Call_mask_to_polygons ==
    /\ geom.pc = "call"
    /\ \E t \in Tolerances :
           geom' = [pc |-> "done",
                    mask |-> geom.mask,
                    simplify_tolerance |-> t,
                    contours |-> findContours(geom.mask),
                    polygons |-> masks_to_polygon_data(<<geom.mask>>, t)[1].polygons,
                    area |-> masks_to_polygon_data(<<geom.mask>>, t)[1].area]
    /\ UNCHANGED <<req, pc, exc, status_code, clock, start_time, reads, size_checked,
                   dim_checked, images, adapter_calls, results, idx, item,
                   batch_results, response, time_read_at, viz_calls, viz_done_at, fault>>

NextContour == Call_mask_to_polygons

ContourSpec == InitContour /\ [][NextContour]_vars

----------------------------------------------------------------------------
(* Properties *)

NumImages == Len(req.images)

Single == req.kind \in {"text", "bbox"}

Finished == pc = "done"

\* the visualization field of a result is present
HasVisualization(result) == result.visualization_base64 # None

\* C1: per-item isolation in inference_batch.  When the model call or the
\* visualization of one image of a batch raises, the batch is still answered
\* 200 with one result per submitted image.
C1_PerItemIsolation ==
    (req.kind = "batch" /\ Finished /\ fault.stage \in {"adapter", "visualize"})
        => /\ status_code = 200
           /\ response.total_images = NumImages
           /\ Len(response.results) = NumImages

\* C2: a batch of two images of which only the second exceeds the
\* max-dimension limit is answered 200 with total_images = 2, item 0
\* carrying its detections and item 1 no detections.
C2_OverDimensionConfined ==
    (/\ req.kind = "batch"
     /\ Finished
     /\ NumImages = 2
     /\ req.body = [json |-> "array", len |-> 2]
     /\ req.images[1] = GoodImage
     /\ req.images[2] \in {WideImage, TallImage})
        => /\ status_code = 200
           /\ response.total_images = 2
           /\ Len(response.results) = 2
           /\ response.results[2].num_objects = 0

\* C3: whenever the model adapter has been invoked, every submitted image has
\* passed the payload-size check and the pixel-dimension check; and in a
\* request with an image over either limit the adapter is never invoked.
C3_ChecksBeforeAdapter ==
    /\ adapter_calls > 0
           => /\ size_checked = 1..NumImages
              /\ dim_checked = 1..NumImages
    /\ (\E i \in 1..NumImages :
            \/ req.images[i].bytes > MAX_IMAGE_SIZE_MB * MiB
            \/ req.images[i].width > MAX_IMAGE_DIMENSION
            \/ req.images[i].height > MAX_IMAGE_DIMENSION)
           => adapter_calls = 0

\* the adapter was invoked for a batch of (at least) two images
C3_Witness ==
    /\ req.kind = "batch"
    /\ NumImages >= 2
    /\ adapter_calls = 1
    /\ dim_checked = 1..NumImages

\* C4: a batch with more than MAX_BATCH_SIZE images, or with a list of
\* prompts whose length differs from the number of images, reads and decodes
\* no image and never invokes the adapter; with text_prompts a JSON array it
\* is answered 400, by the length check or by the batch-size check.
C4_BatchRejectedUpFront ==
    (/\ req.kind = "batch"
     /\ \/ NumImages > MAX_BATCH_SIZE
        \/ req.body.json = "array" /\ NumImages # req.body.len)
        => /\ reads = 0
           /\ images = <<>>
           /\ size_checked = {}
           /\ dim_checked = {}
           /\ adapter_calls = 0
           /\ (Finished /\ req.body.json = "array")
                  => /\ status_code = 400
                     /\ fault.stage \in {"length", "batch_size"}

\* a batch of MAX_BATCH_SIZE + 1 images with as many prompts was rejected by
\* inference_batch's batch-size check
C4_Witness ==
    /\ req.kind = "batch"
    /\ NumImages = MAX_BATCH_SIZE + 1
    /\ req.body.len = NumImages
    /\ Finished
    /\ fault.stage = "batch_size"
    /\ status_code = 400

\* C5: a request that ends on a malformed image, an oversized payload, an
\* over-dimension image, a batch-size violation, a length mismatch or a
\* malformed prompt encoding is answered 400, never 500.
C5_ClientFaultsAre400 ==
    (Finished /\ fault.stage \in {"parse", "length", "batch_size", "size", "decode",
                                  "dimension"})
        => status_code = 400

\* C6: in a single-image request a failure of the adapter invocation is
\* answered 500 whatever it raises, and 400 is answered only for a fault of
\* the validation of the request's own input.
C6_AdapterFaultIsServerFault ==
    (Single /\ Finished)
        => /\ fault.stage = "adapter" => status_code = 500
           /\ status_code = 400 => fault.stage \in {"parse", "size", "decode", "dimension"}

\* C7: when create_visualization raises, the request is still answered 200,
\* with the geometry computed and no visualization.
C7_CompositingFaultRecovered ==
    (Finished /\ fault.stage = "visualize")
        => /\ status_code = 200
           /\ Single => /\ response.num_objects = Len(results[1])
                        /\ response.masks = result_fields(results[1]).masks
                        /\ ~HasVisualization(response)

\* C8: create_visualization is invoked only for a result with at least one
\* object and only when visualization was requested; and in every result of
\* a 200 response the visualization field is present exactly when
\* visualization was requested and the result has at least one object.
C8_VisualizationIffRequestedAndDetected ==
    /\ \A k \in 1..Len(viz_calls) :
           req.viz /\ Len(results[viz_calls[k] + 1]) > 0
    /\ (Finished /\ status_code = 200)
           => IF req.kind = "batch"
              THEN \A i \in 1..Len(response.results) :
                       HasVisualization(response.results[i])
                           <=> (req.viz /\ response.results[i].num_objects > 0)
              ELSE HasVisualization(response)
                       <=> (req.viz /\ response.num_objects > 0)

\* a 200 batch response, visualization requested, with a visualization on the
\* item that has objects and none on the item that has no object
C8_Witness ==
    /\ req.kind = "batch"
    /\ req.viz
    /\ Finished
    /\ status_code = 200
    /\ \E i, j \in 1..Len(response.results) :
           /\ response.results[i].num_objects > 0
           /\ HasVisualization(response.results[i])
           /\ response.results[j].num_objects = 0
           /\ ~HasVisualization(response.results[j])

\* C9: in inference_text and inference_bbox the timer is started before the
\* image is loaded and the elapsed time is read after every step, the
\* visualization included when it runs.
C9_TimeCoversWholeOperation ==
    (Single /\ Finished /\ status_code = 200)
        => /\ start_time >= 0
           /\ start_time < time_read_at
           /\ viz_calls # <<>> => time_read_at > viz_done_at

\* C10: masks_to_polygon_data returns one entry per mask, in input order,
\* entry i holding the polygons and the area of mask i, also when mask i
\* yields no polygon.
C10_OneEntryPerMask ==
    geom.pc = "done"
        => /\ Len(geom.polygon_data) = Len(geom.masks)
           /\ \A i \in 1..Len(geom.masks) :
                  /\ geom.polygon_data[i].polygons =
                         mask_to_polygons(geom.masks[i], geom.simplify_tolerance)
                  /\ geom.polygon_data[i].area = calculate_mask_area(geom.masks[i])

\* three masks converted: one without a polygon between two with polygons
C10_Witness ==
    /\ geom.pc = "done"
    /\ Len(geom.masks) = 3
    /\ Len(geom.polygon_data) = 3
    /\ geom.polygon_data[1].polygons # <<>>
    /\ geom.polygon_data[2].polygons = <<>>
    /\ geom.polygon_data[2].area > 0
    /\ geom.polygon_data[3].polygons # <<>>
    /\ geom.masks[1] # geom.masks[3]

----------------------------------------------------------------------------
(* Properties of mask_to_polygons and calculate_mask_area *)

Converted == geom.pc = "done"

\* the pixels of a mask, and those that are set in the image handed to OpenCV
Pixels(mask) == (0..(mask.w - 1)) \X (0..(mask.h - 1))

ForegroundPixels(mask) == {p \in Pixels(mask) : binary_image(mask)[p] = 1}

\* C11: for every mask and every tolerance the reported area is the number
\* of foreground pixels of the mask, whatever the tolerance and whatever
\* polygons were produced.
C11_AreaIsPixelCount ==
    Converted => geom.area = Cardinality(ForegroundPixels(geom.mask))

\* a 3 x 3 block converted at tolerance 2: no polygon is left, the area is 9
C11_Witness ==
    /\ Converted
    /\ geom.mask = FullMask(3, 3)
    /\ geom.simplify_tolerance = 4
    /\ geom.polygons = <<>>
    /\ geom.area = 9

\* the set of the points of a contour or of a polygon
Points(seq) == {seq[i] : i \in 1..Len(seq)}

\* C12: every polygon returned by mask_to_polygons has at least 3 vertices,
\* and is made of points of a contour that was traced with at least 3 points.
C12_AtLeastThreeVertices ==
    Converted
        => \A k \in 1..Len(geom.polygons) :
               /\ Len(geom.polygons[k]) >= 3
               /\ \E j \in 1..Len(geom.contours) :
                      /\ Len(geom.contours[j]) >= 3
                      /\ Points(geom.polygons[k]) \subseteq Points(geom.contours[j])

\* a mask with a polygon and with a contour of fewer than 3 traced points,
\* converted at the default tolerance
C12_Witness ==
    /\ Converted
    /\ geom.simplify_tolerance = DefaultTolerance
    /\ Len(geom.polygons) >= 1
    /\ \E j \in 1..Len(geom.contours) : Len(geom.contours[j]) < 3

\* C13: simplification never goes below 3 vertices: a traced contour of at
\* least 3 points whose simplification leaves fewer than 3 points is emitted
\* unsimplified.
C13_OriginalContourKept ==
    Converted
        => \A j \in 1..Len(geom.contours) :
               (/\ Len(geom.contours[j]) >= 3
                /\ Len(approxPolyDP(geom.contours[j], geom.simplify_tolerance)) < 3)
                   => \E k \in 1..Len(geom.polygons) : geom.polygons[k] = geom.contours[j]

Adjacent4(p, q) == Abs(p[1] - q[1]) + Abs(p[2] - q[2]) = 1

Adjacent8(p, q) == p # q /\ Abs(p[1] - q[1]) <= 1 /\ Abs(p[2] - q[2]) <= 1

\* the pixels of region connected to those reached, 8-connected for the
\* foreground and 4-connected for the background
RECURSIVE Flood(_, _, _)
Flood(region, reached, eight) ==
    LET next == {q \in region \ reached :
                    \E p \in reached :
                        IF eight THEN Adjacent8(p, q) ELSE Adjacent4(p, q)}
    IN  IF next = {} THEN reached ELSE Flood(region, reached \cup next, eight)

Connected(region, eight) ==
    region # {} /\ Flood(region, {CHOOSE p \in region : TRUE}, eight) = region

Background(mask) == Pixels(mask) \ ForegroundPixels(mask)

OnFrame(mask, p) == p[1] \in {0, mask.w - 1} \/ p[2] \in {0, mask.h - 1}

\* the background connected to the outside of the image
Outside(mask) ==
    Flood(Background(mask), {p \in Background(mask) : OnFrame(mask, p)}, FALSE)

\* the background enclosed by the foreground
Interior(mask) == Background(mask) \ Outside(mask)

OneBlobOneHole(mask) ==
    Connected(ForegroundPixels(mask), TRUE) /\ Connected(Interior(mask), FALSE)

OuterBorder(mask) ==
    {p \in ForegroundPixels(mask) :
        OnFrame(mask, p) \/ \E q \in Outside(mask) : Adjacent4(p, q)}

HoleBorder(mask) ==
    {p \in ForegroundPixels(mask) : \E q \in Interior(mask) : Adjacent4(p, q)}

\* C14: a mask of one foreground blob with one interior hole yields exactly
\* 2 contours, each of at least 3 points: the outer boundary, then the
\* boundary of the hole.
C14_BlobWithHoleTwoContours ==
    (Converted /\ OneBlobOneHole(geom.mask))
        => /\ Len(geom.contours) = 2
           /\ Len(geom.contours[1]) >= 3
           /\ Len(geom.contours[2]) >= 3
           /\ Points(geom.contours[1]) \subseteq OuterBorder(geom.mask)
           /\ Points(geom.contours[2]) \subseteq HoleBorder(geom.mask)

\* a blob of the 4 x 3 grid around a hole of two pixels was traced
C14_Witness ==
    /\ Converted
    /\ geom.mask.w = Grid.w
    /\ OneBlobOneHole(geom.mask)
    /\ Cardinality(Interior(geom.mask)) = 2
    /\ Len(geom.contours) = 2

\* C15: for tolerances e1 < e2 and every traced contour, the contour
\* simplified under e2 has at most as many vertices as under e1.
C15_VertexCountMonotone ==
    Converted
        => \A j \in 1..Len(geom.contours) :
               \A e2 \in Tolerances :
                   geom.simplify_tolerance < e2
                       => Len(approxPolyDP(geom.contours[j], e2))
                              <= Len(approxPolyDP(geom.contours[j], geom.simplify_tolerance))

\* the mask is entirely foreground and was converted at tolerance 1.5
FullyForeground ==
    /\ Converted
    /\ geom.simplify_tolerance = DefaultTolerance
    /\ ForegroundPixels(geom.mask) = Pixels(geom.mask)

\* the polygons are the one rectangle of the border of the mask
BorderRectangle ==
    /\ Len(geom.polygons) = 1
    /\ Len(geom.polygons[1]) = 4
    /\ Points(geom.polygons[1]) =
           {<<0, 0>>, <<0, geom.mask.h - 1>>,
            <<geom.mask.w - 1, geom.mask.h - 1>>, <<geom.mask.w - 1, 0>>}

\* C16: an entirely foreground W x H mask (W, H >= 2, so that its border is
\* traced with 4 points) converted at tolerance 1.5 yields exactly one
\* polygon, the 4-vertex rectangle of its border, and area = W * H.
C16_FullMaskIsRectangle ==
    (FullyForeground /\ geom.mask.w >= 2 /\ geom.mask.h >= 2)
        => /\ BorderRectangle
           /\ geom.area = geom.mask.w * geom.mask.h

----------------------------------------------------------------------------
(* Sam3Visualizer called directly: draw_masks_and_boxes and
   create_visualization on the image of any position of a batch, with 0 to
   MaxObjects objects *)

ImageIndices == 0..(MAX_BATCH_SIZE - 1)

InitViz ==
    /\ req = NoRequest
    /\ pc = "idle"
    /\ exc = "none"
    /\ status_code = 0
    /\ clock = 0
    /\ start_time = -1
    /\ reads = 0
    /\ size_checked = {}
    /\ dim_checked = {}
    /\ images = <<>>
    /\ adapter_calls = 0
    /\ results = <<>>
    /\ idx = 0
    /\ item = None
    /\ batch_results = <<>>
    /\ response = None
    /\ time_read_at = -1
    /\ viz_calls = <<>>
    /\ viz_done_at = -1
    /\ fault = NoFault
    /\ \E i \in ImageIndices, objects \in ObjectLists :
           geom = [pc |-> "call", image |-> SourceImage(i), objects |-> objects]

Call_draw_masks_and_boxes ==
    /\ geom.pc = "call"
    /\ geom' = [pc |-> "drawn", image |-> geom.image, objects |-> geom.objects,
                result |-> draw_masks_and_boxes(geom.image, geom.objects)]
    /\ UNCHANGED <<req, pc, exc, status_code, clock, start_time, reads, size_checked,
                   dim_checked, images, adapter_calls, results, idx, item,
                   batch_results, response, time_read_at, viz_calls, viz_done_at, fault>>

Call_create_visualization ==
    /\ geom.pc = "call"
    /\ geom' = [pc |-> "encoded", image |-> geom.image, objects |-> geom.objects,
                result |-> create_visualization(geom.image, geom.objects)]
    /\ UNCHANGED <<req, pc, exc, status_code, clock, start_time, reads, size_checked,
                   dim_checked, images, adapter_calls, results, idx, item,
                   batch_results, response, time_read_at, viz_calls, viz_done_at, fault>>

NextViz ==
    \/ Call_draw_masks_and_boxes
    \/ Call_create_visualization

VizSpec == InitViz /\ [][NextViz]_vars

----------------------------------------------------------------------------
(* Properties of the visualizer *)

Drawn == IF geom.pc = "drawn" THEN geom.result.drawn ELSE geom.result.image.drawn

\* the positions in Drawn of the mask fills that cover pixel p
FillsOver(p) ==
    {k \in 1..Len(Drawn) :
        /\ Drawn[k].op = "mask"
        /\ p \in geom.objects[Drawn[k].object + 1].mask.fg}

\* the objects whose masks cover pixel p (0-based)
ObjectsOver(p) == {o \in 0..(Len(geom.objects) - 1) : p \in geom.objects[o + 1].mask.fg}

Max(S) == CHOOSE m \in S : \A s \in S : s <= m

\* C21: the compositor draws in a fixed order: the mask fills of all the
\* objects first, in the order of the objects (at a pixel that several masks
\* cover, the fill of the last of these objects is the last fill), then the
\* box and the score text of each object; no mask fill comes after a box or a
\* text.
C21_MasksThenBoxes ==
    (geom.pc \in {"drawn", "encoded"} /\ Len(geom.objects) > 0)
        => LET n == Len(geom.objects)
           IN  /\ Len(Drawn) = 3 * n
               /\ \A k \in 1..n :
                      Drawn[k].op = "mask" /\ Drawn[k].object = k - 1
               /\ \A k \in 1..n :
                      /\ Drawn[n + 2 * k - 1].op = "box"
                      /\ Drawn[n + 2 * k - 1].object = k - 1
                      /\ Drawn[n + 2 * k].op = "text"
                      /\ Drawn[n + 2 * k].object = k - 1
               /\ \A j, k \in 1..Len(Drawn) :
                      (j < k /\ Drawn[j].op # "mask") => Drawn[k].op # "mask"
               /\ \A p \in UNION {geom.objects[o].mask.fg : o \in 1..n} :
                      Drawn[Max(FillsOver(p))].object = Max(ObjectsOver(p))

\* an image returned with two different objects drawn on it whose masks
\* overlap
C21_Witness ==
    /\ geom.pc = "drawn"
    /\ Len(geom.objects) = 2
    /\ geom.objects[1] # geom.objects[2]
    /\ geom.objects[1].mask.fg \cap geom.objects[2].mask.fg # {}
    /\ Len(geom.result.drawn) = 6

-----------------------------------------------------------------------------
(* Properties of the responses of the three endpoints *)

\* C18: in every successful batch response the results sequence has exactly
\* total_images entries, the entry of the image submitted at position i has
\* image_index = i, and so the indices are unique, cover 0..N-1 and follow the
\* order of submission, whatever number of results the adapter returned.
C18_ResultsMatchSubmission ==
    (req.kind = "batch" /\ Finished /\ status_code = 200)
        => /\ response.total_images = NumImages
           /\ Len(response.results) = response.total_images
           /\ \A i \in 1..Len(response.results) :
                  response.results[i].image_index = i - 1

\* the returned result describes the objects of the adapter's result, one by
\* one and in the adapter's order
DescribesObjects(returned, objects) ==
    /\ returned.num_objects = Len(objects)
    /\ Len(returned.boxes) = Len(objects)
    /\ Len(returned.scores) = Len(objects)
    /\ Len(returned.masks) = Len(objects)
    /\ \A i \in 1..Len(objects) :
           /\ returned.boxes[i] = objects[i].box
           /\ returned.scores[i] = objects[i].score
           /\ returned.masks[i].area = calculate_mask_area(objects[i].mask)
           /\ returned.masks[i].polygons =
                  mask_to_polygons(objects[i].mask, DefaultTolerance)

\* C19: in every returned result, of a single image or of a batch item,
\* num_objects is the number of objects of the adapter's result and the length
\* of boxes, scores and masks, and position i of the three describes object i
\* of the adapter, in the adapter's order (not sorted by score).
C19_DetectionsFollowAdapter ==
    (Finished /\ status_code = 200)
        => IF Single
           THEN DescribesObjects(response, results[1])
           ELSE \A k \in 1..Len(response.results) :
                    DescribesObjects(response.results[k], results[k])

\* a returned result of two objects which the adapter gave in order of
\* increasing score, for a single image or as the second item of a batch
C19_Witness ==
    /\ Finished
    /\ status_code = 200
    /\ IF Single
       THEN /\ response.num_objects = 2
            /\ response.scores[1] < response.scores[2]
       ELSE /\ Len(response.results) = 2
            /\ response.results[2].num_objects = 2
            /\ response.results[2].scores[1] < response.results[2].scores[2]

\* C20: the model adapter is invoked exactly once in a batch request that
\* succeeds, whatever the number of images (one call for the whole batch, not
\* one per image), and at most once in any batch request.
C20_OneAdapterCallPerBatch ==
    req.kind = "batch"
        => /\ adapter_calls <= 1
           /\ (Finished /\ status_code = 200) => adapter_calls = 1

\* a batch of two images answered 200 with its two results after one call
C20_Witness ==
    /\ req.kind = "batch"
    /\ Finished
    /\ status_code = 200
    /\ NumImages = 2
    /\ Len(response.results) = 2
    /\ adapter_calls = 1

-----------------------------------------------------------------------------
(* inference_text and inference_bbox side by side, from the point where the
   adapter has returned: the same image, the same return_visualization, the
   same objects and the same behaviour of the compositor for both; each
   measures its own time *)

MaxElapsed == 2

Elapsed == 1..MaxElapsed

InitPair ==
    /\ req = NoRequest
    /\ pc = "idle"
    /\ exc = "none"
    /\ status_code = 0
    /\ clock = 0
    /\ start_time = -1
    /\ reads = 0
    /\ size_checked = {}
    /\ dim_checked = {}
    /\ images = <<>>
    /\ adapter_calls = 0
    /\ results = <<>>
    /\ idx = 0
    /\ item = None
    /\ batch_results = <<>>
    /\ response = None
    /\ time_read_at = -1
    /\ viz_calls = <<>>
    /\ viz_done_at = -1
    /\ fault = NoFault
    /\ \E objects \in ObjectLists, v \in BOOLEAN,
          c \in {"none"} \cup CompositingErrors :
           geom = [image |-> SourceImage(0), objects |-> objects,
                   return_visualization |-> v, compositing |-> c,
                   text |-> None, bbox |-> None]

Call_inference_text ==
    /\ geom.text = None
    /\ \E t \in Elapsed :
           geom' = [geom EXCEPT !.text =
               inference_text_after_adapter(geom.image, geom.objects,
                   geom.return_visualization, t, geom.compositing)]
    /\ UNCHANGED <<req, pc, exc, status_code, clock, start_time, reads, size_checked,
                   dim_checked, images, adapter_calls, results, idx, item,
                   batch_results, response, time_read_at, viz_calls, viz_done_at, fault>>

Call_inference_bbox ==
    /\ geom.bbox = None
    /\ \E t \in Elapsed :
           geom' = [geom EXCEPT !.bbox =
               inference_bbox_after_adapter(geom.image, geom.objects,
                   geom.return_visualization, t, geom.compositing)]
    /\ UNCHANGED <<req, pc, exc, status_code, clock, start_time, reads, size_checked,
                   dim_checked, images, adapter_calls, results, idx, item,
                   batch_results, response, time_read_at, viz_calls, viz_done_at, fault>>

NextPair ==
    \/ Call_inference_text
    \/ Call_inference_bbox

PairSpec == InitPair /\ [][NextPair]_vars

BothReturned == geom.text # None /\ geom.bbox # None

\* two responses equal in every field but processing_time_ms
EqualButTime(a, b) ==
    IF a = None \/ b = None
    THEN a = b
    ELSE [a EXCEPT !.processing_time_ms = 0] = [b EXCEPT !.processing_time_ms = 0]

-----------------------------------------------------------------------------
(* Two requests on the one SAM3Inference instance of main.py's lifespan.
   The handlers are coroutines on one event loop: a request runs until it
   awaits file.read() in _load_image_from_upload, and the loop then runs any
   request that is ready.  Everything else, the adapter included, is
   synchronous. *)

\* the instance after SAM3Inference() and load_model(): its attributes hold
\* objects (before load_model, model and processor are None)
LoadedInstance ==
    [model |-> [class |-> "Sam3Model"], processor |-> [class |-> "Sam3Processor"],
     visualizer |-> [class |-> "Sam3Visualizer"], device |-> [class |-> "str"]]

\* What the library calls of one request do: the adapter raises `adapter` or
\* returns `results`, create_visualization raises `compositing` or returns.
FullResult == CHOOSE r \in ObjectLists : Len(r) = MaxObjects /\ r[1].score < r[Len(r)].score

Environments(n) ==
    {[adapter |-> "none", results |-> [k \in 1..n |-> FullResult], compositing |-> "none"],
     [adapter |-> "none", results |-> [k \in 1..n |-> <<>>], compositing |-> "none"],
     [adapter |-> "none", results |-> [k \in 1..n |-> FullResult], compositing |-> "OSError"],
     [adapter |-> "RuntimeError", results |-> <<>>, compositing |-> "none"]}

ConcurrentRequests ==
    {[kind |-> "text", images |-> <<f>>, body |-> NoBody, viz |-> v] :
         f \in {GoodImage, OversizeImage}, v \in BOOLEAN} \cup
    {[kind |-> "bbox", images |-> <<GoodImage>>, body |-> b, viz |-> TRUE] :
         b \in {[json |-> "array", len |-> 1], [json |-> "scalar", len |-> 0]}} \cup
    {[kind |-> "batch", images |-> fs, body |-> [json |-> "array", len |-> Len(fs)],
      viz |-> TRUE] :
         fs \in {<<GoodImage, GoodImage>>, <<GoodImage, MalformedImage>>}}

\* a request that has not begun; after it, one that left with an exception,
\* and one that returned
NewTask(r, e) ==
    [req |-> r, env |-> e, pc |-> "new", reads |-> 0, images |-> <<>>,
     start_time |-> -1, end_time |-> -1, status_code |-> 0, exc |-> "none",
     response |-> None]

Raised(p, e, now) ==
    [p EXCEPT !.pc = "done", !.exc = e, !.status_code = http_status(e), !.end_time = now]

Returned(p, r, now) ==
    [p EXCEPT !.pc = "done", !.response = r, !.status_code = 200, !.end_time = now]

\* result_item of inference_batch, with its visualization
result_item(index, f, return_visualizations, image, objects) ==
    [image_index |-> index, num_objects |-> f.num_objects,
     boxes |-> f.boxes, scores |-> f.scores, masks |-> f.masks,
     visualization_base64 |->
         IF should_visualize(return_visualizations, f.num_objects)
         THEN b64encode(create_visualization(SourceImage(image), objects))
         ELSE None]

\* inference_batch after the adapter: the loop over zip(images, results) and
\* the response dict, or the exception of create_visualization
batch_after_adapter(imgs, res, return_visualizations, elapsed, compositing) ==
    LET n == zip_length(imgs, res)
    IN  IF /\ compositing # "none"
           /\ \E k \in 1..n : should_visualize(return_visualizations, Len(res[k]))
        THEN [response |-> None, exc |-> compositing]
        ELSE [response |-> [total_images |-> Len(imgs),
                            results |-> [k \in 1..n |->
                                result_item(k - 1, result_fields(res[k]),
                                    return_visualizations, imgs[k], res[k])],
                            total_processing_time_ms |-> elapsed,
                            average_time_per_image_ms |-> <<elapsed, Len(imgs)>>],
              exc |-> "none"]

\* The handler from its first statement to its first `await file.read()`:
\* the decoding of the form field, start_time and the batch size check.
begin(p, now) ==
    LET e == CASE p.req.kind = "bbox" -> parse_bounding_boxes(p.req.body)
               [] p.req.kind = "batch" ->
                      parse_text_prompts(p.req.body, Len(p.req.images)).exc
               [] OTHER -> "none"
    IN  IF e # "none"
        THEN Raised(p, e, now)
        ELSE IF p.req.kind = "batch" /\ batch_size_exceeded(Len(p.req.images))
        THEN Raised([p EXCEPT !.start_time = now], "ValueError", now)
        ELSE [p EXCEPT !.pc = "reading", !.reads = 1, !.start_time = now]

\* the method is left with the exception or with the response of r
leave(p, now, r) ==
    IF r.exc # "none" THEN Raised(p, r.exc, now) ELSE Returned(p, r.response, now)

\* The synchronous rest of the method once every image is loaded: processor,
\* model and post-processing of the instance, then the response.
complete(p, self, now) ==
    IF self.processor = None \/ self.model = None
    THEN Raised(p, "TypeError", now)
    ELSE IF p.env.adapter # "none"
    THEN Raised(p, p.env.adapter, now)
    ELSE IF p.req.kind # "batch" /\ Len(p.env.results) = 0
    THEN Raised(p, "IndexError", now)
    ELSE leave(p, now,
               IF p.req.kind = "batch"
               THEN batch_after_adapter(p.images, p.env.results, p.req.viz,
                                        now - p.start_time, p.env.compositing)
               ELSE after_adapter(SourceImage(p.images[1]), p.env.results[1],
                        should_visualize(p.req.viz, Len(p.env.results[1])),
                        now - p.start_time, p.env.compositing))

\* The handler from the return of `await file.read()` to its next
\* suspension, or to its end.
resume(p, self, now) ==
    LET r == load_image_from_upload(p.req.images[p.reads])
    IN  IF r.exc # "none"
        THEN Raised(p, r.exc, now)
        ELSE LET loaded == [p EXCEPT !.images = Append(@, p.reads)]
             IN  IF after_load(p.reads, Len(p.req.images)) = "read"
                 THEN [loaded EXCEPT !.reads = @ + 1]
                 ELSE complete(loaded, self, now)

\* an instance that drops its model when a request fails
instance_unloaded_on_error(self, p) ==
    IF p.pc = "done" /\ p.status_code # 200 THEN [self EXCEPT !.model = None] ELSE self

\* The instance after a step of request p: the request methods assign no
\* attribute of self.
instance_after(self, p) == self

\* the request run to its end with no other request on the loop
RECURSIVE run(_, _)
run(p, now) ==
    IF p.pc = "done" THEN p ELSE run(resume(p, LoadedInstance, now), now + 1)

run_alone(r, e) == run(begin(NewTask(r, e), 0), 1)

Tasks == {1, 2}

InitConcurrent ==
    /\ req = NoRequest
    /\ pc = "idle"
    /\ exc = "none"
    /\ status_code = 0
    /\ clock = 0
    /\ start_time = -1
    /\ reads = 0
    /\ size_checked = {}
    /\ dim_checked = {}
    /\ images = <<>>
    /\ adapter_calls = 0
    /\ results = <<>>
    /\ idx = 0
    /\ item = None
    /\ batch_results = <<>>
    /\ response = None
    /\ time_read_at = -1
    /\ viz_calls = <<>>
    /\ viz_done_at = -1
    /\ fault = NoFault
    /\ \E r1, r2 \in ConcurrentRequests :
           \E e1 \in Environments(Len(r1.images)), e2 \in Environments(Len(r2.images)) :
               geom = [self |-> LoadedInstance, now |-> 0,
                       tasks |-> [i \in Tasks |-> IF i = 1 THEN NewTask(r1, e1)
                                                  ELSE NewTask(r2, e2)]]

\* the loop, the instance and the requests after a step of request i that
\* left it as p
after_step(i, p) ==
    [self |-> instance_after(geom.self, p), now |-> geom.now + 1,
     tasks |-> [geom.tasks EXCEPT ![i] = p]]

\* the loop starts the handler of request i
Begin(i) ==
    /\ geom.tasks[i].pc = "new"
    /\ geom' = after_step(i, begin(geom.tasks[i], geom.now))
    /\ UNCHANGED <<req, pc, exc, status_code, clock, start_time, reads, size_checked,
                   dim_checked, images, adapter_calls, results, idx, item,
                   batch_results, response, time_read_at, viz_calls, viz_done_at, fault>>

\* the read request i awaits has returned and the loop resumes it
Resume(i) ==
    /\ geom.tasks[i].pc = "reading"
    /\ geom' = after_step(i, resume(geom.tasks[i], geom.self, geom.now))
    /\ UNCHANGED <<req, pc, exc, status_code, clock, start_time, reads, size_checked,
                   dim_checked, images, adapter_calls, results, idx, item,
                   batch_results, response, time_read_at, viz_calls, viz_done_at, fault>>

NextConcurrent ==
    \/ \E i \in Tasks : Begin(i)
    \/ \E i \in Tasks : Resume(i)

ConcurrentSpec == InitConcurrent /\ [][NextConcurrent]_vars

\* what a finished request answered
Outcome(p) == [status_code |-> p.status_code, exc |-> p.exc, response |-> p.response]

\* ... with its measured times left out
Untimed(r) ==
    IF r = None THEN None
    ELSE IF "processing_time_ms" \in DOMAIN r
    THEN [r EXCEPT !.processing_time_ms = 0]
    ELSE [r EXCEPT !.total_processing_time_ms = 0, !.average_time_per_image_ms = 0]

OutcomeButTime(p) == [Outcome(p) EXCEPT !.response = Untimed(@)]

\* C23 as stated: for any interleaving of two requests on the shared
\* instance, switching at the awaited file reads, the result and the error
\* outcome of each request equal what it produces when run alone, and no step
\* of a request writes state another request reads.
C23_NoInterference ==
    /\ geom.self = LoadedInstance
    /\ \A i \in Tasks :
           geom.tasks[i].pc = "done"
               => Outcome(geom.tasks[i]) =
                      Outcome(run_alone(geom.tasks[i].req, geom.tasks[i].env))

\* C23 amended: the same, for every field of the result except the measured
\* times (processing_time_ms, total_processing_time_ms,
\* average_time_per_image_ms), which also count the time the other request
\* ran in between.
C23_NoInterferenceButTime ==
    /\ geom.self = LoadedInstance
    /\ \A i \in Tasks :
           geom.tasks[i].pc = "done"
               => OutcomeButTime(geom.tasks[i]) =
                      OutcomeButTime(run_alone(geom.tasks[i].req, geom.tasks[i].env))

\* two requests answered 200 of which the second began and ended while the
\* first, a batch, was suspended
C23_Witness ==
    /\ \A i \in Tasks : geom.tasks[i].pc = "done" /\ geom.tasks[i].status_code = 200
    /\ geom.tasks[1].req.kind = "batch"
    /\ geom.tasks[1].start_time < geom.tasks[2].start_time
    /\ geom.tasks[2].end_time < geom.tasks[1].end_time

====
